---- MODULE Spec2Model ----
(***************************************************************************)
(* megaswap: the token scan of swap.py (main), the pair quote of quote.py  *)
(* (get_reserves, main) and the environment validation of provider.py     *)
(* (load_env), as state machines.                                          *)
(*                                                                         *)
(* The web3 handle w3 is an external collaborator: every awaited contract  *)
(* call either returns a value or raises.  A raised error is either a      *)
(* ValueError (web3 reports RPC errors and malformed values that way) or   *)
(* some other exception (a revert, a transport error); both are drawn      *)
(* nondeterministically for every call.                                    *)
(*                                                                         *)
(* Integers of the model are small: wei amounts and decimals are scaled    *)
(* down so that every product stays below 2^31.                            *)
(***************************************************************************)
EXTENDS Integers, Sequences, FiniteSets, TLC

VARIABLES
    env,        \* os.environ: variable name -> value, Absent when not set
    dotenv,     \* the .env file read by load_dotenv: name -> value or Absent
    pc,         \* position of the running script
    error,      \* the exception that ended the script, or the one caught
    log,        \* logger output: sequence of [level, msg]
    calls,      \* contract calls issued so far: sequence of [fn, idx, ret]
    tokens,     \* swap.py: the list loaded from token.yaml
    i,          \* swap.py: 1-based position of the for loop in tokens
    is_pair,    \* swap.py: the value get_pair returned for the current token
    outcomes,   \* swap.py: the "Is there a pair" lines: [idx, found]
    quotes,     \* swap.py: the "Amount out" lines: [idx, raw, decimals]
    pool,       \* quote.py: the pair contract on chain [token0, token1, x, y]
    reserves,   \* quote.py: what get_reserves returned; <<>> is None
    reserve_eth,        \* quote.py: main's reserve_eth, <<>> when unset
    reserve_out_token,  \* quote.py: main's reserve_out_token, <<>> when unset
    price,      \* quote.py: main's price, <<>> when unset
    formatted_price     \* quote.py: main's formatted_price, <<>> when unset

vars == <<env, dotenv, pc, error, log, calls, tokens, i, is_pair, outcomes,
          quotes, pool, reserves, reserve_eth, reserve_out_token, price,
          formatted_price>>

scanVars == <<tokens, i, is_pair, outcomes, quotes>>
quoteVars == <<pool, reserves, reserve_eth, reserve_out_token, price,
               formatted_price>>

(***************************************************************************)
(* Bounds of the model.                                                    *)
(***************************************************************************)
MaxTokens == 3

(***************************************************************************)
(* Values.                                                                 *)
(***************************************************************************)
Absent == "<absent>"
None == <<>>

WethAddr == "0xWETH"
TokenOutAddr == "0xUSDC"
NativeAddr == "0xEeee"
OtherAddr == "0xDAI"
PairAddr == "0xPAIR"
ZeroAddress == "0x0000000000000000000000000000000000000000"

TargetChain == "MegaETH"
NativeSymbol == "ETH"
NoPairSentinel == "0x"

NoError == [type |-> "none", line |-> 0, names |-> <<>>]
Err(type, line) == [type |-> type, line |-> line, names |-> <<>>]

RaiseKinds == {"ValueError", "Exception"}

(***************************************************************************)
(* Environment variables.                                                  *)
(***************************************************************************)
SwapRequired ==
    <<"RPC_URL", "WETH_ADDRESS", "PRIVATE_KEY", "PUBLIC_KEY",
      "UNISWAP_ROUTER_ADDRESS", "TOKEN_OUT_ADDRESS">>

ProviderRequired ==
    <<"PRIVATE_KEY", "PUBLIC_KEY", "RPC_URL", "TOKEN_OUT_ADDRESS",
      "TOKEN_OUT_DECIMALS", "UNISWAP_ROUTER_ADDRESS", "WETH_ADDRESS",
      "WETH_DECIMALS">>

EnvNames ==
    {"PRIVATE_KEY", "PUBLIC_KEY", "RPC_URL", "TOKEN_OUT_ADDRESS",
     "TOKEN_OUT_DECIMALS", "UNISWAP_ROUTER_ADDRESS", "WETH_ADDRESS",
     "WETH_DECIMALS", "UNISWAP_FACTORY_ADDRESS"}

FullEnv ==
    [k \in EnvNames |->
        CASE k = "PRIVATE_KEY" -> "0xkey"
          [] k = "PUBLIC_KEY" -> "0xme"
          [] k = "RPC_URL" -> "https://rpc"
          [] k = "TOKEN_OUT_ADDRESS" -> TokenOutAddr
          [] k = "TOKEN_OUT_DECIMALS" -> "0"
          [] k = "UNISWAP_ROUTER_ADDRESS" -> "0xROUTER"
          [] k = "WETH_ADDRESS" -> WethAddr
          [] k = "WETH_DECIMALS" -> "3"
          [] OTHER -> "0xFACTORY"]

EmptyEnv == [k \in EnvNames |-> Absent]

\* os.getenv(k): None when the variable is not set
Getenv(e, k) == e[k]

\* `not value` for the result of os.getenv: None and "" are both falsy
Falsy(v) == v = Absent \/ v = ""

\* load_dotenv(override=True): every variable of the file replaces the process's
LoadDotenv(e, d) == [k \in EnvNames |-> IF d[k] # Absent THEN d[k] ELSE e[k]]

\* the mutant of MissingVars: only the first missing variable is reported
MissingVarsFirstOnly(required, e) ==
    LET all == SelectSeq(required, LAMBDA k : e[k] = Absent)
    IN  IF all = <<>> THEN <<>> ELSE <<Head(all)>>

\* [key for key in required if key not in os.environ]
MissingVars(required, e) == SelectSeq(required, LAMBDA k : e[k] = Absent)

\* load_env of swap.py and of provider.py: the log lines and the error
LoadEnvError(required, e, line) ==
    IF MissingVars(required, e) # <<>>
    THEN [type |-> "ValueError", line |-> line, names |-> MissingVars(required, e)]
    ELSE NoError

LoadEnvLog(required, e) ==
    IF MissingVars(required, e) # <<>>
    THEN <<[level |-> "info", msg |-> "Loading environment variables from .env file."]>>
    ELSE <<[level |-> "info", msg |-> "Loading environment variables from .env file."],
           [level |-> "info", msg |-> "Environment variables loaded successfully."]>>

(***************************************************************************)
(* swap.py: the token scan.                                                *)
(***************************************************************************)
Token(chain, symbol, address, decimals) ==
    [blockchain |-> chain, symbol |-> symbol, address |-> address,
     decimals |-> decimals]

TokenUniverse ==
    { Token("MegaETH", "ETH", NativeAddr, 3),
      Token("MegaETH", "WETH", WethAddr, 3),
      Token("MegaETH", "USDC", TokenOutAddr, 2),
      Token("Ethereum", "DAI", OtherAddr, 3) }

TokenLists == UNION { [1..n -> TokenUniverse] : n \in 0..MaxTokens }

\* the mutant of Filter: the blockchain tag is not looked at
FilterSymbolOnly(token) == token.symbol # NativeSymbol

\* if blockchain == "MegaETH" and symbol != "ETH"
Filter(token) ==
    token.blockchain = TargetChain /\ token.symbol # NativeSymbol

\* return pair_address != "0x"
IsPair(pair_address) == pair_address # NoPairSentinel

\* the mutant of Advance: the loop stays on the token
AdvanceStay(k) == k

\* the for loop takes the next token
Advance(k) == k + 1

\* the mutant of AfterPair: the quote is requested whatever get_pair returned
AfterPairAlways(found) == "quote"

\* if is_pair: await print_amount_out(...)
AfterPair(found) == IF found THEN "quote" ELSE "loop"

\* except ValueError as e: logger.error(...); anything else leaves main
AfterRaise(kind) == IF kind = "ValueError" THEN "done" ELSE "crashed"

RaiseLog(kind) ==
    IF kind = "ValueError"
    THEN <<[level |-> "error", msg |-> "Error: %s"]>>
    ELSE <<>>

Call(fn, idx, ret) == [fn |-> fn, idx |-> idx, ret |-> ret]

\* what the factory's getPair may return
PairReturns == {NoPairSentinel, ZeroAddress, PairAddr}

\* what the router's getAmountsOut may return as its last element
AmountsOut == {1, 2500}

ScanEnvs ==
    { FullEnv,
      [FullEnv EXCEPT !["UNISWAP_FACTORY_ADDRESS"] = Absent],
      [FullEnv EXCEPT !["UNISWAP_ROUTER_ADDRESS"] = ""],
      [FullEnv EXCEPT !["WETH_ADDRESS"] = Absent],
      [FullEnv EXCEPT !["PUBLIC_KEY"] = ""] }

ScanDotenvs ==
    { EmptyEnv,
      [EmptyEnv EXCEPT !["WETH_ADDRESS"] = WethAddr] }

Init ==
    /\ env \in ScanEnvs
    /\ dotenv \in ScanDotenvs
    /\ tokens \in TokenLists
    /\ pc = "start"
    /\ error = NoError
    /\ log = <<>>
    /\ calls = <<>>
    /\ i = 1
    /\ is_pair = FALSE
    /\ outcomes = <<>>
    /\ quotes = <<>>
    /\ pool = None
    /\ reserves = None
    /\ reserve_eth = None
    /\ reserve_out_token = None
    /\ price = None
    /\ formatted_price = None

\* swap.py main, line 165: load_env()
SwapLoadEnv ==
    /\ pc = "start"
    /\ env' = LoadDotenv(env, dotenv)
    /\ error' = LoadEnvError(SwapRequired, env', 68)
    /\ log' = log \o LoadEnvLog(SwapRequired, env')
    /\ pc' = IF error'.type = "none" THEN "config" ELSE "crashed"
    /\ UNCHANGED <<dotenv, calls>>
    /\ UNCHANGED scanVars
    /\ UNCHANGED quoteVars

\* swap.py main, lines 166-185: the values read from the environment
SwapReadConfig ==
    /\ pc = "config"
    /\ IF Falsy(Getenv(env, "WETH_ADDRESS")) \/ Falsy(Getenv(env, "PUBLIC_KEY"))
       THEN pc' = "crashed" /\ error' = Err("ValueError", 170) /\ log' = log
       ELSE IF Falsy(Getenv(env, "RPC_URL"))
       THEN pc' = "crashed" /\ error' = Err("ValueError", 174) /\ log' = log
       ELSE IF Falsy(Getenv(env, "TOKEN_OUT_ADDRESS"))
       THEN pc' = "crashed" /\ error' = Err("ValueError", 178) /\ log' = log
       ELSE /\ pc' = "balances"
            /\ error' = error
            /\ log' = log \o <<[level |-> "info", msg |-> "Connecting to RPC URL: %s"],
                               [level |-> "info", msg |-> "WETH Address: %s"],
                               [level |-> "info", msg |-> "Public Key: %s"],
                               [level |-> "info", msg |-> "Loaded tokens: %s"]>>
    /\ UNCHANGED <<env, dotenv, calls>>
    /\ UNCHANGED scanVars
    /\ UNCHANGED quoteVars

\* swap.py main, lines 189-190: print_balance, print_weth_balance
SwapPrintBalances ==
    /\ pc = "balances"
    /\ \/ /\ calls' = calls \o <<Call("get_balance", 0, "ok"),
                                 Call("balanceOf", 0, "ok")>>
          /\ log' = log \o <<[level |-> "info", msg |-> "Balance of %s: %s ETH"],
                             [level |-> "info", msg |-> "WETH Balance of %s: %s WETH"]>>
          /\ pc' = "loop"
          /\ error' = error
       \/ \E kind \in RaiseKinds :
            /\ calls' = calls \o <<Call("get_balance", 0, kind)>>
            /\ log' = log \o RaiseLog(kind)
            /\ pc' = AfterRaise(kind)
            /\ error' = Err(kind, 189)
       \/ \E kind \in RaiseKinds :
            /\ calls' = calls \o <<Call("get_balance", 0, "ok"),
                                   Call("balanceOf", 0, kind)>>
            /\ log' = log \o <<[level |-> "info", msg |-> "Balance of %s: %s ETH"]>>
                          \o RaiseLog(kind)
            /\ pc' = AfterRaise(kind)
            /\ error' = Err(kind, 190)
    /\ UNCHANGED <<env, dotenv>>
    /\ UNCHANGED scanVars
    /\ UNCHANGED quoteVars

\* swap.py main, lines 191-194: a token the filter rejects is passed over
SwapSkipToken ==
    /\ pc = "loop"
    /\ i <= Len(tokens)
    /\ ~Filter(tokens[i])
    /\ i' = Advance(i)
    /\ UNCHANGED <<env, dotenv, pc, error, log, calls, tokens, is_pair,
                   outcomes, quotes>>
    /\ UNCHANGED quoteVars

\* swap.py main, lines 196-207 with get_pair, lines 127-147
SwapGetPair ==
    /\ pc = "loop"
    /\ i <= Len(tokens)
    /\ Filter(tokens[i])
    /\ IF Falsy(Getenv(env, "UNISWAP_FACTORY_ADDRESS"))
       THEN /\ error' = Err("ValueError", 134)
            /\ log' = log \o RaiseLog("ValueError")
            /\ pc' = AfterRaise("ValueError")
            /\ UNCHANGED <<calls, is_pair, outcomes, i>>
       ELSE \/ \E kind \in RaiseKinds :
                 /\ calls' = Append(calls, Call("getPair", i, kind))
                 /\ error' = Err(kind, 143)
                 /\ log' = log \o RaiseLog(kind)
                 /\ pc' = AfterRaise(kind)
                 /\ UNCHANGED <<is_pair, outcomes, i>>
            \/ \E pair_address \in PairReturns :
                 /\ calls' = Append(calls, Call("getPair", i, pair_address))
                 /\ is_pair' = IsPair(pair_address)
                 /\ outcomes' = Append(outcomes, [idx |-> i, found |-> is_pair'])
                 /\ log' = Append(log, [level |-> "info",
                                        msg |-> "Is there a pair for %s and %s, %s? %s"])
                 /\ pc' = AfterPair(is_pair')
                 /\ i' = IF pc' = "loop" THEN Advance(i) ELSE i
                 /\ error' = error
    /\ UNCHANGED <<env, dotenv, tokens, quotes>>
    /\ UNCHANGED quoteVars

\* swap.py main, lines 208-214 with print_amount_out, lines 96-124
SwapPrintAmountOut ==
    /\ pc = "quote"
    /\ IF Falsy(Getenv(env, "UNISWAP_ROUTER_ADDRESS"))
       THEN /\ error' = Err("ValueError", 105)
            /\ log' = log \o RaiseLog("ValueError")
            /\ pc' = AfterRaise("ValueError")
            /\ UNCHANGED <<calls, quotes, i>>
       ELSE \/ \E kind \in RaiseKinds :
                 /\ calls' = Append(calls, Call("getAmountsOut", i, kind))
                 /\ error' = Err(kind, 114)
                 /\ log' = log \o RaiseLog(kind)
                 /\ pc' = AfterRaise(kind)
                 /\ UNCHANGED <<quotes, i>>
            \/ \E amount_out \in AmountsOut :
                 /\ calls' = Append(calls, Call("getAmountsOut", i, "ok"))
                 /\ quotes' = Append(quotes, [idx |-> i, raw |-> amount_out,
                                              decimals |-> tokens[i].decimals])
                 /\ log' = Append(log, [level |-> "info",
                                        msg |-> "Amount out for %s %s: %s %s"])
                 /\ pc' = "loop"
                 /\ i' = Advance(i)
                 /\ error' = error
    /\ UNCHANGED <<env, dotenv, tokens, is_pair, outcomes>>
    /\ UNCHANGED quoteVars

\* swap.py main, line 191: the list is exhausted and main returns
SwapFinish ==
    /\ pc = "loop"
    /\ i > Len(tokens)
    /\ pc' = "done"
    /\ UNCHANGED <<env, dotenv, error, log, calls>>
    /\ UNCHANGED scanVars
    /\ UNCHANGED quoteVars

Next ==
    \/ SwapLoadEnv
    \/ SwapReadConfig
    \/ SwapPrintBalances
    \/ SwapSkipToken
    \/ SwapGetPair
    \/ SwapPrintAmountOut
    \/ SwapFinish

Spec == Init /\ [][Next]_vars

(***************************************************************************)
(* quote.py: the quote of one pair.                                        *)
(***************************************************************************)
RECURSIVE Pow10(_)
\* 10**k for k >= 0
Pow10(k) == IF k = 0 THEN 1 ELSE 10 * Pow10(k - 1)

\* int(s) for the strings of the model; -1 stands for the ValueError of int()
ParseInt(s) ==
    CASE s = "0" -> 0
      [] s = "3" -> 3
      [] OTHER -> -1

\* raw / (10**decimals) as the rational num/den
Normalize(raw, decimals) == [num |-> raw, den |-> Pow10(decimals)]

ZeroDivision == [num |-> 0, den |-> 0]

\* the mutant of Divide: IEEE division, x / 0 is Infinity (or NaN for 0 / 0)
DivideIEEE(a, b) == [num |-> a.num * b.den, den |-> a.den * b.num]

\* a / b on floats: Python raises ZeroDivisionError when b == 0
Divide(a, b) ==
    IF b.num = 0 THEN ZeroDivision
    ELSE [num |-> a.num * b.den, den |-> a.den * b.num]

\* round(n / d) to the nearest integer, ties to even
RoundDiv(n, d) ==
    LET q == n \div d
        r == n % d
    IN  IF 2 * r > d \/ (2 * r = d /\ q % 2 = 1) THEN q + 1 ELSE q

RECURSIVE SciExp(_, _, _)
\* the least e >= k with p * 10**e >= 1, for p > 0
SciExp(p, k, limit) ==
    IF p.num * Pow10(k) >= p.den \/ k >= limit THEN k
    ELSE SciExp(p, k + 1, limit)

\* f"{price:.4f}" if price >= 0.0001 else f"{price:.4e}"
FormatPrice(p) ==
    IF p.den = 0 THEN [style |-> "inf", digits |-> 0, exp |-> 0]
    ELSE IF p.num * 10000 >= p.den
    THEN [style |-> "f", digits |-> RoundDiv(p.num * 10000, p.den), exp |-> 0]
    ELSE IF p.num = 0
    THEN [style |-> "e", digits |-> 0, exp |-> 0]
    ELSE LET e == SciExp(p, 5, 8)
             m == RoundDiv(p.num * Pow10(e + 4), p.den)
         IN  IF m >= 100000
             THEN [style |-> "e", digits |-> 10000, exp |-> 1 - e]
             ELSE [style |-> "e", digits |-> m, exp |-> 0 - e]

\* what the pair contract holds of the base and of the quote token
ReserveValues == {0, 1, 20}

\* the pair contract: token0/token1 in the contract's own order, x of the base
\* token (WETH_ADDRESS) and y of the quote token (TOKEN_OUT_ADDRESS)
Pools ==
    { [token0 |-> t[1], token1 |-> t[2], x |-> x, y |-> y] :
        t \in {<<WethAddr, TokenOutAddr>>, <<TokenOutAddr, WethAddr>>},
        x \in ReserveValues, y \in ReserveValues }

\* getReserves() of the pair contract: (reserve0, reserve1, blockTimestampLast)
GetReserves(p, base) ==
    IF p.token0 = base THEN <<p.x, p.y, 0>> ELSE <<p.y, p.x, 0>>

QuoteEnvs ==
    { [k \in EnvNames |->
          IF k \in absent THEN Absent
          ELSE IF k = "WETH_DECIMALS" THEN wd
          ELSE IF k = "TOKEN_OUT_DECIMALS" THEN td
          ELSE FullEnv[k]] :
        absent \in SUBSET EnvNames, wd \in {"3", ""}, td \in {"0", "3", "x"} }

QuoteDotenvs ==
    { EmptyEnv,
      [EmptyEnv EXCEPT !["WETH_ADDRESS"] = WethAddr],
      [EmptyEnv EXCEPT !["WETH_ADDRESS"] = WethAddr, !["WETH_DECIMALS"] = "0",
                       !["PRIVATE_KEY"] = "0xkey"] }

InitQuote ==
    /\ env \in QuoteEnvs
    /\ dotenv \in QuoteDotenvs
    /\ pool \in Pools
    /\ pc = "start"
    /\ error = NoError
    /\ log = <<>>
    /\ calls = <<>>
    /\ tokens = <<>>
    /\ i = 1
    /\ is_pair = FALSE
    /\ outcomes = <<>>
    /\ quotes = <<>>
    /\ reserves = None
    /\ reserve_eth = None
    /\ reserve_out_token = None
    /\ price = None
    /\ formatted_price = None

\* quote.py line 89: load_env() of provider.py, lines 38-64
QuoteLoadEnv ==
    /\ pc = "start"
    /\ env' = LoadDotenv(env, dotenv)
    /\ error' = LoadEnvError(ProviderRequired, env', 61)
    /\ log' = log \o LoadEnvLog(ProviderRequired, env')
    /\ pc' = IF error'.type = "none" THEN "config" ELSE "crashed"
    /\ UNCHANGED <<dotenv, calls>>
    /\ UNCHANGED scanVars
    /\ UNCHANGED quoteVars

\* quote.py main, lines 50-63: the asserted values of the environment
QuoteReadConfig ==
    /\ pc = "config"
    /\ IF Falsy(Getenv(env, "WETH_ADDRESS"))
       THEN pc' = "crashed" /\ error' = Err("AssertionError", 51)
       ELSE IF Falsy(Getenv(env, "TOKEN_OUT_ADDRESS"))
       THEN pc' = "crashed" /\ error' = Err("AssertionError", 53)
       ELSE IF Falsy(Getenv(env, "RPC_URL"))
       THEN pc' = "crashed" /\ error' = Err("AssertionError", 55)
       ELSE IF Falsy(Getenv(env, "WETH_DECIMALS"))
       THEN pc' = "crashed" /\ error' = Err("AssertionError", 57)
       ELSE IF Falsy(Getenv(env, "TOKEN_OUT_DECIMALS"))
       THEN pc' = "crashed" /\ error' = Err("AssertionError", 61)
       ELSE pc' = "get_reserves" /\ error' = error
    /\ UNCHANGED <<env, dotenv, log, calls>>
    /\ UNCHANGED scanVars
    /\ UNCHANGED quoteVars

\* the contract reads of get_reserves after the pair is found, in order
PairReads == <<"name", "symbol", "decimals", "token0", "token1", "getReserves">>

PairReadLine(fn) ==
    CASE fn = "name" -> 32
      [] fn = "symbol" -> 33
      [] fn = "decimals" -> 34
      [] fn = "token0" -> 38
      [] fn = "token1" -> 39
      [] OTHER -> 43

\* the calls get_reserves has issued when read number n raises `kind`
ReadsUntil(n, kind) ==
    [k \in 1..n |-> Call(PairReads[k], 0, IF k = n THEN kind ELSE "ok")]

PairInfoLog ==
    <<[level |-> "info", msg |-> "Pair address: %s"],
      [level |-> "info", msg |-> "Pair name: %s"],
      [level |-> "info", msg |-> "Pair symbol: %s"],
      [level |-> "info", msg |-> "Pair decimals: %s"],
      [level |-> "info", msg |-> "Token0: %s"],
      [level |-> "info", msg |-> "Token1: %s"]>>

\* quote.py main line 67 with get_reserves, lines 18-44, and get_pair of swap.py.
\* get_pair returns a bool, so line 28 hands True to w3.to_checksum_address:
\* whether that raises is the external handle's choice.
QuoteGetReserves ==
    /\ pc = "get_reserves"
    /\ IF Falsy(Getenv(env, "UNISWAP_FACTORY_ADDRESS"))
       THEN /\ error' = Err("ValueError", 134)
            /\ pc' = "crashed"
            /\ UNCHANGED <<calls, log, is_pair, reserves>>
       ELSE \/ \E kind \in RaiseKinds :
                 /\ calls' = Append(calls, Call("getPair", 0, kind))
                 /\ error' = Err(kind, 143)
                 /\ pc' = "crashed"
                 /\ UNCHANGED <<log, is_pair, reserves>>
            \/ \E pair_address \in PairReturns :
                 /\ is_pair' = IsPair(pair_address)
                 /\ IF ~is_pair'
                    THEN /\ calls' = Append(calls, Call("getPair", 0, pair_address))
                         /\ log' = Append(log, [level |-> "error",
                                        msg |-> "Pair address not found for %s and %s"])
                         /\ reserves' = None
                         /\ pc' = "convert"
                         /\ error' = error
                    ELSE \/ /\ calls' = Append(calls, Call("getPair", 0, pair_address))
                            /\ log' = Append(log, [level |-> "info",
                                                   msg |-> "Pair address: %s"])
                            /\ error' = Err("ValueError", 28)
                            /\ pc' = "crashed"
                            /\ reserves' = reserves
                         \/ \E n \in 1..Len(PairReads), kind \in RaiseKinds :
                            /\ calls' = Append(calls, Call("getPair", 0, pair_address))
                                          \o ReadsUntil(n, kind)
                            /\ log' = log \o SubSeq(PairInfoLog, 1,
                                                    IF n <= 3 THEN 1
                                                    ELSE IF n <= 5 THEN 4 ELSE 6)
                            /\ error' = Err(kind, PairReadLine(PairReads[n]))
                            /\ pc' = "crashed"
                            /\ reserves' = reserves
                         \/ /\ calls' = Append(calls, Call("getPair", 0, pair_address))
                                          \o ReadsUntil(Len(PairReads), "ok")
                            /\ log' = log \o PairInfoLog
                            /\ reserves' = GetReserves(pool, Getenv(env, "WETH_ADDRESS"))
                            /\ pc' = "convert"
                            /\ error' = error
    /\ UNCHANGED <<env, dotenv, tokens, i, outcomes, quotes, pool, reserve_eth,
                   reserve_out_token, price, formatted_price>>

\* quote.py main, lines 68-76: the reserves are reported, the decimals parsed
QuoteConvert ==
    /\ pc = "convert"
    /\ LET line == IF reserves # None
                   THEN [level |-> "info", msg |-> "Reserves for %s and %s: %s"]
                   ELSE [level |-> "error", msg |-> "Failed to get reserves for %s and %s"]
       IN  /\ log' = Append(log, line)
           /\ IF ParseInt(Getenv(env, "WETH_DECIMALS")) < 0
              THEN pc' = "crashed" /\ error' = Err("ValueError", 75)
              ELSE IF ParseInt(Getenv(env, "TOKEN_OUT_DECIMALS")) < 0
              THEN pc' = "crashed" /\ error' = Err("ValueError", 76)
              ELSE pc' = "price" /\ error' = error
    /\ UNCHANGED <<env, dotenv, calls>>
    /\ UNCHANGED scanVars
    /\ UNCHANGED quoteVars

\* quote.py main, lines 78-85: the price of the pair
QuotePrice ==
    /\ pc = "price"
    /\ LET base_decimals == ParseInt(Getenv(env, "WETH_DECIMALS"))
           out_decimals == ParseInt(Getenv(env, "TOKEN_OUT_DECIMALS"))
       IN  IF reserves = None
           THEN /\ pc' = "crashed"
                /\ error' = Err("TypeError", 78)
                /\ UNCHANGED <<log, reserve_eth, reserve_out_token, price,
                               formatted_price>>
           ELSE /\ reserve_eth' = <<Normalize(reserves[1], base_decimals)>>
                /\ reserve_out_token' = <<Normalize(reserves[2], out_decimals)>>
                /\ LET p == Divide(reserve_out_token'[1], reserve_eth'[1])
                       head == <<[level |-> "info", msg |-> "Reserve ETH: %s"],
                                 [level |-> "info", msg |-> "Reserve %s: %s"]>>
                   IN  IF p = ZeroDivision
                       THEN /\ pc' = "crashed"
                            /\ error' = Err("ZeroDivisionError", 83)
                            /\ log' = log \o head
                            /\ UNCHANGED <<price, formatted_price>>
                       ELSE /\ price' = <<p>>
                            /\ formatted_price' = <<FormatPrice(p)>>
                            /\ log' = log \o head \o
                                 <<[level |-> "info", msg |-> "Quoting %s/%s at %s"]>>
                            /\ pc' = "done"
                            /\ error' = error
    /\ UNCHANGED <<env, dotenv, calls, pool, reserves>>
    /\ UNCHANGED scanVars

NextQuote ==
    \/ QuoteLoadEnv
    \/ QuoteReadConfig
    \/ QuoteGetReserves
    \/ QuoteConvert
    \/ QuotePrice

SpecQuote == InitQuote /\ [][NextQuote]_vars

(***************************************************************************)
(* Properties of the scan (swap.py), checked under Spec.                   *)
(***************************************************************************)
Terminated == pc \in {"done", "crashed"}

CallsFor(fn, idx) ==
    {k \in 1..Len(calls) : calls[k].fn = fn /\ calls[k].idx = idx}

Failed(k) == calls[k].ret \in RaiseKinds

ScanCalls == {"getPair", "getAmountsOut"}

\* C1: failure isolation.  When the chain call made for a token fails, the
\* failure does not leave the scan as an unhandled fault, and once the scan
\* has ended every later token that passes the filter has been processed.
C1_FailureIsolation ==
    \A k \in 1..Len(calls) :
        (calls[k].fn \in ScanCalls /\ Failed(k)) =>
            /\ pc # "crashed"
            /\ Terminated =>
                 \A j \in (calls[k].idx + 1)..Len(tokens) :
                     Filter(tokens[j]) => CallsFor("getPair", j) # {}

\* C2: a zero address returned by getPair is reported as not found: the scan
\* records "no pair" for the token and requests no quote for it.
C2_ZeroAddressNotFound ==
    \A k \in 1..Len(calls) :
        (calls[k].fn = "getPair" /\ calls[k].ret = ZeroAddress) =>
            /\ \A n \in 1..Len(outcomes) :
                 outcomes[n].idx = calls[k].idx => ~outcomes[n].found
            /\ CallsFor("getAmountsOut", calls[k].idx) = {}

\* C3: a token whose blockchain tag is not the target chain gets no chain
\* call at all and no outcome.
C3_FilteredTokenNoCall ==
    \A j \in 1..Len(tokens) :
        tokens[j].blockchain # TargetChain =>
            /\ \A k \in 1..Len(calls) : calls[k].idx # j
            /\ \A n \in 1..Len(outcomes) : outcomes[n].idx # j
            /\ \A n \in 1..Len(quotes) : quotes[n].idx # j

\* C3 witness: the scan has ended, it passed over a token of another chain and
\* issued calls for a token after it.
C3_Witness ==
    /\ pc = "done"
    /\ \E j \in 1..Len(tokens) :
         /\ tokens[j].blockchain # TargetChain
         /\ \E m \in (j + 1)..Len(tokens) : CallsFor("getAmountsOut", m) # {}

Indices(n) == [j \in 1..n |-> j]

\* C4: when no call fails, the tokens the scan resolves a pair for are, in
\* input order and once each, the tokens of the target chain whose address is
\* not the base token's address.
C4_CoverageAndOrder ==
    (pc = "done" /\ error = NoError) =>
        [n \in 1..Len(outcomes) |-> outcomes[n].idx]
          = SelectSeq(Indices(Len(tokens)),
                      LAMBDA j : /\ tokens[j].blockchain = TargetChain
                                 /\ tokens[j].address # env["WETH_ADDRESS"])

\* C8: a quote is requested for a token only after its pair resolution has
\* completed and reported found; a token reported not found is never quoted.
C8_QuoteOnlyAfterFound ==
    /\ \A k \in 1..Len(calls) :
         calls[k].fn = "getAmountsOut" =>
            /\ \E m \in 1..(k - 1) :
                 /\ calls[m].fn = "getPair"
                 /\ calls[m].idx = calls[k].idx
                 /\ ~Failed(m)
            /\ \E n \in 1..Len(outcomes) :
                 outcomes[n].idx = calls[k].idx /\ outcomes[n].found
    /\ \A n \in 1..Len(outcomes) :
         ~outcomes[n].found => CallsFor("getAmountsOut", outcomes[n].idx) = {}
    /\ pc = "quote" =>
         /\ outcomes # <<>>
         /\ outcomes[Len(outcomes)] = [idx |-> i, found |-> TRUE]

\* C8 witness: the scan has ended with one token quoted and another reported
\* not found.
C8_Witness ==
    /\ pc = "done"
    /\ \E n \in 1..Len(outcomes) :
         outcomes[n].found /\ CallsFor("getAmountsOut", outcomes[n].idx) # {}
    /\ \E n \in 1..Len(outcomes) : ~outcomes[n].found

\* C9: no retry.  Every token gets at most one getPair and at most one
\* getAmountsOut call, and no call follows a failed call for the same token.
C9_NoRetry ==
    /\ \A j \in 1..Len(tokens) :
         /\ Cardinality(CallsFor("getPair", j)) <= 1
         /\ Cardinality(CallsFor("getAmountsOut", j)) <= 1
    /\ \A k \in 1..Len(calls) :
         (calls[k].fn \in ScanCalls /\ Failed(k)) =>
             \A m \in (k + 1)..Len(calls) : calls[m].idx # calls[k].idx

\* C9 witness: the same token is listed twice, its first entry was resolved
\* and quoted, and the quote of its second entry failed.
C9_Witness ==
    /\ Terminated
    /\ \E j \in 1..Len(tokens), m \in 1..Len(tokens) :
         /\ j < m
         /\ tokens[j] = tokens[m]
         /\ CallsFor("getPair", j) # {}
         /\ \E k \in CallsFor("getAmountsOut", j) : ~Failed(k)
         /\ \E k \in CallsFor("getAmountsOut", m) : Failed(k)

(***************************************************************************)
(* Properties of quote.py and of provider.load_env, checked under          *)
(* SpecQuote.                                                              *)
(***************************************************************************)
Logged(msg) == \E n \in 1..Len(log) : log[n].msg = msg

\* C5: the reserves the price computation uses as (base, quote) are what the
\* pair holds of the base token and of the quote token, in both orientations
\* of the contract's token0/token1.
C5_ReserveOrdering ==
    reserve_eth # None =>
        /\ reserve_eth[1].num = pool.x
        /\ reserve_out_token[1].num = pool.y

\* C6: with a base reserve of 0 the price computation ends in a division by
\* zero error: no price, no formatted price and no quote line is produced.
C6_ZeroBaseReserveRaises ==
    (reserves # None /\ reserves[1] = 0) =>
        /\ pc # "done"
        /\ price = None
        /\ formatted_price = None
        /\ ~Logged("Quoting %s/%s at %s")
        /\ reserve_eth # None => error = Err("ZeroDivisionError", 83)

\* C6 witness: the price computation ran on reserves (0, y) with y > 0 and
\* ended in ZeroDivisionError.
C6_Witness ==
    /\ reserves # None
    /\ reserves[1] = 0
    /\ reserves[2] > 0
    /\ reserve_eth # None
    /\ error.type = "ZeroDivisionError"

\* C7: load_env of provider.py raises ValueError exactly when a required
\* variable is absent once the .env file is loaded; the error names every
\* missing variable; with none missing it logs start and success and returns.
C7_LoadEnvRaisesIffMissing ==
    LET required == {"PRIVATE_KEY", "PUBLIC_KEY", "RPC_URL", "TOKEN_OUT_ADDRESS",
                     "TOKEN_OUT_DECIMALS", "UNISWAP_ROUTER_ADDRESS",
                     "WETH_ADDRESS", "WETH_DECIMALS"}
        missing == {k \in required : env[k] = Absent}
        raised == error.type = "ValueError" /\ error.line = 61
        start == [level |-> "info",
                  msg |-> "Loading environment variables from .env file."]
        success == [level |-> "info",
                    msg |-> "Environment variables loaded successfully."]
    IN  pc # "start" =>
          /\ raised <=> missing # {}
          /\ raised =>
               /\ pc = "crashed"
               /\ {error.names[n] : n \in 1..Len(error.names)} = missing
               /\ log = <<start>>
          /\ ~raised =>
               /\ Len(log) >= 2
               /\ SubSeq(log, 1, 2) = <<start, success>>

\* C7 witness: load_env raised with several variables missing although the
\* .env file supplied some, one variable being present but empty.
C7_Witness ==
    /\ pc = "crashed"
    /\ error.line = 61
    /\ Len(error.names) >= 2
    /\ dotenv # EmptyEnv
    /\ \E k \in EnvNames : env[k] = ""

\* C10: when get_reserves reports no pair (returns None), main stops after
\* logging the failure: it reads no reserve value, computes no price and ends
\* without an unhandled fault.
C10_NoPairStops ==
    (/\ Logged("Pair address not found for %s and %s")
     /\ ParseInt(env["WETH_DECIMALS"]) >= 0
     /\ ParseInt(env["TOKEN_OUT_DECIMALS"]) >= 0) =>
        /\ error = NoError
        /\ pc # "crashed"
        /\ reserve_eth = None
        /\ price = None

(***************************************************************************)
(* Configuration validation of the scan (swap.py), checked under Spec.     *)
(***************************************************************************)
\* load_env of swap.py has returned without raising
SwapLoadEnvReturned == pc # "start" /\ ~(error.type = "ValueError" /\ error.line = 68)

\* the "... environment variable is not set." errors of get_pair and of
\* print_amount_out, by the line that raises them
NotSetLines == {134, 105}

\* C11: once load_env of swap.py has returned without error, no step of the
\* scan (get_pair, print_amount_out) fails with an "environment variable is
\* not set" ValueError.
C11_ValidationComplete ==
    SwapLoadEnvReturned =>
        ~(error.type = "ValueError" /\ error.line \in NotSetLines)

====
